---- MODULE Spec2Model ----
(***************************************************************************)
(* The scenario writer (scenario-writer/src): the top-level application    *)
(* state of MainApp (App.tsx), the Editor with its pause and wildcard      *)
(* timers (Editor.tsx), the RulePanel's locally computed active set        *)
(* (RulePanel.tsx) and the persistence helpers (lib/firebase.ts).          *)
(*                                                                         *)
(* One action is one JavaScript task: an event handler or timer callback   *)
(* together with the React re-render and the effects that re-render runs.  *)
(* Promise reactions (microtasks) are steps of their own; no task starts   *)
(* while a reaction is pending.                                            *)
(*                                                                         *)
(* Time is Date.now() in milliseconds.  Texts are sequences of characters. *)
(***************************************************************************)
EXTENDS Integers, Sequences, FiniteSets, TLC

\* ------------------------------------------------------------------ bounds
\* Date.now() when MainApp mounts (startTimeRef).
StartNow == 1000
\* Granularity of the passage of time between two tasks.
TickMs == 1000
\* Fine-grained ticks happen up to this many ms after the start; later, time
\* only advances to the next timer that is due.
MaxFineMs == 1000
\* The participant acts (types, clicks) up to this many ms after the start;
\* later only timers and network responses are followed.
MaxUserMs == 10000
\* No timer is followed beyond this many ms after the start.
MaxMs == 40000
\* The participant's events after the check-in event and the cloud saves
\* started number at most this many together (pause events come on top).
MaxEvents == 3
\* Most cloud saves in flight or settled in one session.
MaxSaves == 2

\* --------------------------------------------------------- program constants
\* Editor.tsx:123, the pause timeout.
PauseMs == 2000
\* Editor.tsx:75, the wildcard prompt delay.
WildcardMs == 10000
\* App.tsx:124, the auto-save interval.
AutoSaveMs == 30000
\* App.tsx:331, Submit Story is disabled below this trimmed length.
MinSubmitLen == 50

\* -------------------------------------------------------------------- texts
IsSpace(c) == c = " "

RECURSIVE TrimStart(_)
TrimStart(s) ==
  IF s = <<>> THEN <<>>
  ELSE IF IsSpace(Head(s)) THEN TrimStart(Tail(s)) ELSE s

RECURSIVE TrimEnd(_)
TrimEnd(s) ==
  IF s = <<>> THEN <<>>
  ELSE IF IsSpace(s[Len(s)]) THEN TrimEnd(SubSeq(s, 1, Len(s) - 1)) ELSE s

\* String.prototype.trim
Trim(s) == TrimEnd(TrimStart(s))

\* s.split(/\s+/): the pieces between maximal runs of whitespace (a leading or
\* trailing run leaves an empty piece, as in JavaScript).
RECURSIVE SplitWs(_, _, _)
SplitWs(s, cur, inRun) ==
  IF s = <<>> THEN <<cur>>
  ELSE IF IsSpace(Head(s))
       THEN IF inRun THEN SplitWs(Tail(s), cur, TRUE)
            ELSE <<cur>> \o SplitWs(Tail(s), <<>>, TRUE)
       ELSE SplitWs(Tail(s), Append(cur, Head(s)), FALSE)

\* The word count without the trim: split(/\s+/) of the raw text.
CountWords_noTrim(s) == IF s # <<>> THEN Len(SplitWs(s, <<>>, FALSE)) ELSE 0

\* Editor.tsx:64 (and App.tsx:111)
CountWords(s) == IF Trim(s) # <<>> THEN Len(SplitWs(Trim(s), <<>>, FALSE)) ELSE 0

\* n copies of the word "ab" separated by single spaces.
RECURSIVE Words(_)
Words(n) ==
  IF n = 0 THEN <<>>
  ELSE IF n = 1 THEN <<"a", "b">>
  ELSE Words(n - 1) \o <<" ", "a", "b">>

\* The wildcard story opener (one text of wildcardStoryOpeners: long enough to
\* be submitted).
OpenerText == Words(17)
OpenerId == "extinction-era"

\* What the participant may make the textarea hold: nothing, a blank, a word
\* as long as the blank, and a text long enough to be submitted.
Texts == {<<>>, <<" ">>, <<"a">>, Words(17)}
\* What the participant may paste.
PasteTexts == {Words(1)}

\* -------------------------------------------------------------------- rules
\* A rule list of the Rule type.  INITIAL_RULES is configuration ("in a real
\* app these might come from an API or config"); this list has one rule of
\* each kind the engine distinguishes, with thresholds the texts and the time
\* horizon above reach.
INITIAL_RULES ==
  << [id |-> "rule1", type |-> "mandatory",
      content |-> "Write from the perspective of someone living 50 years in the future",
      condition |-> [type |-> "wordCount", value |-> 1], status |-> "inactive"],
     [id |-> "structure1", type |-> "optional",
      content |-> "Consider setting your story at least 10 years from today",
      condition |-> [type |-> "wordCount", value |-> 10], status |-> "inactive"],
     [id |-> "structure3", type |-> "optional",
      content |-> "Consider how this future system differs from today's education",
      condition |-> [type |-> "time", value |-> 2], status |-> "inactive"] >>

RuleIds == {INITIAL_RULES[i].id : i \in DOMAIN INITIAL_RULES}

IsTerminal(rule) == rule.status = "completed" \/ rule.status = "skipped"

\* shouldActivate with the word-count threshold compared by > instead of >=.
shouldActivate_strictWordCount(rule, wc, elapsedMs) ==
  \/ rule.condition.type = "wordCount" /\ wc > rule.condition.value
  \/ rule.condition.type = "time" /\ elapsedMs >= rule.condition.value * 1000

\* shouldActivate with the elapsed milliseconds compared to the threshold in
\* seconds (the division by 1000 forgotten).
shouldActivate_msAsSeconds(rule, wc, elapsedMs) ==
  \/ rule.condition.type = "wordCount" /\ wc >= rule.condition.value
  \/ rule.condition.type = "time" /\ elapsedMs >= rule.condition.value

\* RulePanel.tsx:41-47; elapsedSeconds >= value is compared in milliseconds.
shouldActivate(rule, wc, elapsedMs) ==
  \/ rule.condition.type = "wordCount" /\ wc >= rule.condition.value
  \/ rule.condition.type = "time" /\ elapsedMs >= rule.condition.value * 1000

\* updatedRules without the early return for completed and skipped rules.
updatedRules_noTerminalCheck(rs, wc, elapsedMs) ==
  [i \in DOMAIN rs |->
     [rs[i] EXCEPT !.status =
        IF shouldActivate(rs[i], wc, elapsedMs) THEN "active" ELSE "inactive"]]

\* RulePanel.tsx:34-53
updatedRules(rs, wc, elapsedMs) ==
  [i \in DOMAIN rs |->
     IF IsTerminal(rs[i]) THEN rs[i]
     ELSE [rs[i] EXCEPT !.status =
             IF shouldActivate(rs[i], wc, elapsedMs) THEN "active" ELSE "inactive"]]

\* RulePanel.tsx:55, the argument of setActiveRules
evaluate(rs, wc, elapsedMs) ==
  SelectSeq(updatedRules(rs, wc, elapsedMs), LAMBDA r : r.status = "active")

SeqIds(rs) == {rs[i].id : i \in DOMAIN rs}

\* ------------------------------------------------------------------- records
\* {...r, k: v}
With(r, k, v) == [x \in DOMAIN r \cup {k} |-> IF x = k THEN v ELSE r[x]]
Has(r, k) == k \in DOMAIN r

\* ------------------------------------------------------------- local storage
sessionId == "sid"
DraftKey == "draft_sid"
SessionKey == "session_sid"

setItem(ls, k, v) == With(ls, k, v)
removeItem(ls, k) == [x \in DOMAIN ls \ {k} |-> ls[x]]
\* getItem(k) is truthy: the key is present and its value is not "".
Truthy(ls, k) == k \in DOMAIN ls /\ ls[k] # <<>>

\* ---------------------------------------------------------------- variables
VARIABLES
  now,            \* Date.now()
  content,        \* MainApp state
  wordCount,
  rules,
  events,
  isSubmitting,
  isComplete,
  isCheckedIn,
  checkInData,    \* <<>> (null) or <<data>>
  toast,          \* the toast shown last
  localStorage,
  autoSaveDue,    \* when the auto-save interval fires next
  editor,         \* the mounted Editor's state and refs
  orphanPauses,   \* pause timeouts of unmounted Editors, still scheduled
  activeRules,    \* RulePanel state
  evalNow,        \* `now` of the RulePanel effect's last run
  exiting,        \* ids of rule cards playing their exit animation
  inflight,       \* sessions handed to saveSession, outcome unknown
  rejected,       \* <<>> or <<session>>: saveSession has thrown, .catch pending
  store,          \* documents of the "sessions" collection
  downloads,      \* file downloads offered
  console         \* what console.error has logged

appVars == <<content, wordCount, rules, events, isSubmitting, isComplete,
             isCheckedIn, checkInData, toast>>
panelVars == <<activeRules, evalNow, exiting>>
saveVars == <<inflight, rejected, store, downloads, console>>
vars == <<now, appVars, localStorage, autoSaveDue, editor, orphanPauses,
          panelVars, saveVars>>

NoToast == [message |-> "", type |-> "none"]

\* The Editor's state before it is mounted and after it is unmounted.
\* (hasConsented is written by handleConsent and read nowhere: left out.)
NoEditor ==
  [mounted |-> FALSE, content |-> <<>>, consentOpen |-> FALSE,
   showWildcard |-> FALSE, wildcardShown |-> FALSE,
   pauseTimeoutRef |-> <<>>, wildcardTimeoutRef |-> <<>>,
   pendingInput |-> <<>>]

Init ==
  /\ now = StartNow
  /\ content = <<>>
  /\ wordCount = 0
  /\ rules = INITIAL_RULES
  /\ events = <<>>
  /\ isSubmitting = FALSE
  /\ isComplete = FALSE
  /\ isCheckedIn = FALSE
  /\ checkInData = <<>>
  /\ toast = NoToast
  /\ localStorage = <<>>
  /\ autoSaveDue = StartNow + AutoSaveMs
  /\ editor = NoEditor
  /\ orphanPauses = <<>>
  /\ activeRules = <<>>
  /\ evalNow = StartNow
  /\ exiting = {}
  /\ inflight = <<>>
  /\ rejected = <<>>
  /\ store = <<>>
  /\ downloads = <<>>
  /\ console = <<>>

startTime == StartNow

\* No promise reaction is pending and the browser is not between a paste event
\* and the input event of the same paste: a new task may start.
Idle == rejected = <<>> /\ editor.pendingInput = <<>>

\* A task the participant starts.
User == Idle /\ now <= StartNow + MaxUserMs

\* The view renderView shows.
View ==
  IF isComplete THEN "complete"
  ELSE IF isSubmitting THEN "form"
  ELSE IF ~isCheckedIn THEN "checkin"
  ELSE "editor"

\* ------------------------------------------------------------ render effects
\* App.tsx:130-139, the local-storage part of handleContentChange
saveDraft(ls, newContent) ==
  IF Trim(newContent) # <<>> THEN setItem(ls, DraftKey, newContent) ELSE ls

\* App.tsx:117-127: the effect re-arms the interval when content changed.
autoSaveEffect(newContent) ==
  IF newContent # content THEN now + AutoSaveMs ELSE autoSaveDue

\* Editor.tsx:69-83: the cleanup clears the timer, the effect arms a new one.
wildcardEffect(c, shown) ==
  IF Trim(c) = <<>> /\ ~shown THEN <<now + WildcardMs>> ELSE <<>>

\* The effect keeping a rule active once it was active (a latch).
PanelEffect_latch(newRules, newWordCount, ran) ==
  LET next == IF ran
              THEN SelectSeq(updatedRules(newRules, newWordCount, now - startTime),
                     LAMBDA r : \/ r.status = "active"
                                \/ r.id \in SeqIds(activeRules) /\ ~IsTerminal(r))
              ELSE activeRules
  IN /\ activeRules' = next
     /\ evalNow' = IF ran THEN now ELSE evalNow
     /\ exiting' = (exiting \cup SeqIds(activeRules)) \ SeqIds(next)

\* RulePanel.tsx:30-56: the effect runs when rules or wordCount changed.
PanelEffect(newRules, newWordCount, ran) ==
  LET next == IF ran THEN evaluate(newRules, newWordCount, now - startTime)
              ELSE activeRules
  IN /\ activeRules' = next
     /\ evalNow' = IF ran THEN now ELSE evalNow
     /\ exiting' = (exiting \cup SeqIds(activeRules)) \ SeqIds(next)

\* Cloud saves started so far.
Saves == Len(inflight) + Len(rejected) + Len(store) + Len(downloads)

\* There is room for one more event of the participant, or for one more save
\* (a pause timeout that is due fires whatever the log holds).
LogRoom == Len(events) + Saves < MaxEvents + 1

\* handleTrackEvent putting the new event first: [event, ...prev].
handleTrackEvent_prepend(prev, event) == <<event>> \o prev

\* App.tsx:142-144
handleTrackEvent(prev, event) == Append(prev, event)

\* Editor.tsx:94-124, the timer part of trackEvent: the timeout held in the
\* ref is cleared and a new one is scheduled.
trackEventTimer == <<now + PauseMs>>

\* Mounting the Editor with initialContent c (Editor.tsx:43-91): its state, the
\* word-count effect, the wildcard effect and the draft restore.
MountedContent(c) ==
  IF Truthy(localStorage, DraftKey) /\ c = <<>> THEN localStorage[DraftKey] ELSE c

MountEditor(c) ==
  [mounted |-> TRUE, content |-> MountedContent(c), consentOpen |-> FALSE,
   showWildcard |-> FALSE, wildcardShown |-> FALSE,
   pauseTimeoutRef |-> <<>>,
   wildcardTimeoutRef |-> wildcardEffect(MountedContent(c), FALSE),
   pendingInput |-> <<>>]

\* Unmounting the Editor: the wildcard effect's cleanup runs; the pause timeout
\* is not cleared and stays scheduled.
UnmountEditor ==
  /\ editor' = NoEditor
  /\ orphanPauses' = orphanPauses \o editor.pauseTimeoutRef
  /\ activeRules' = <<>>
  /\ exiting' = {}
  /\ UNCHANGED evalNow

\* After a MainApp re-render the Editor's word-count effect runs again
\* (Editor.tsx:63-66: onContentChange is a new function on every render) and
\* handleContentChange stores the draft once more.
rerenderDraft(ls) == IF editor.mounted THEN saveDraft(ls, editor.content) ELSE ls

\* The Editor is mounted with initialContent c0 and its effects have run.
EnterEditor(c0) ==
  /\ editor' = MountEditor(c0)
  /\ content' = MountedContent(c0)
  /\ wordCount' = CountWords(MountedContent(c0))
  /\ localStorage' = saveDraft(localStorage, MountedContent(c0))
  /\ autoSaveDue' = autoSaveEffect(MountedContent(c0))
  /\ activeRules' = evaluate(rules, CountWords(MountedContent(c0)), now - startTime)
  /\ evalNow' = now
  /\ exiting' = {}
  /\ UNCHANGED orphanPauses

\* ------------------------------------------------------------------ check-in
\* App.tsx:178-192
HandleCheckInSubmit(data) ==
  /\ User
  /\ View = "checkin"
  /\ checkInData' = <<data>>
  /\ isCheckedIn' = TRUE
  /\ events' = handleTrackEvent(events,
        [type |-> "check_in_complete", timestamp |-> now, checkInData |-> data])
  /\ EnterEditor(content)
  /\ UNCHANGED <<now, rules, isSubmitting, isComplete, toast, saveVars>>

\* -------------------------------------------------------------------- editor
\* Editor.tsx:126-136 with the effects of the content change
\* (Editor.tsx:63-83, App.tsx:117-139, RulePanel.tsx:30-56).
Change(newContent) ==
  /\ events' =
       IF Len(newContent) > Len(editor.content)
       THEN handleTrackEvent(events,
              [type |-> "type", timestamp |-> now, content |-> newContent])
       ELSE IF Len(newContent) < Len(editor.content)
       THEN handleTrackEvent(events,
              [type |-> "delete", timestamp |-> now, content |-> newContent])
       ELSE events
  /\ editor' = [editor EXCEPT
       !.content = newContent,
       !.pendingInput = <<>>,
       !.pauseTimeoutRef =
          IF Len(newContent) # Len(editor.content) THEN trackEventTimer ELSE @,
       !.wildcardTimeoutRef = wildcardEffect(newContent, editor.wildcardShown)]
  /\ content' = newContent
  /\ wordCount' = CountWords(newContent)
  /\ localStorage' = saveDraft(localStorage, newContent)
  /\ autoSaveDue' = autoSaveEffect(newContent)
  /\ PanelEffect(rules, CountWords(newContent), CountWords(newContent) # wordCount)
  /\ UNCHANGED <<now, rules, isSubmitting, isComplete, isCheckedIn, checkInData,
                 toast, orphanPauses, saveVars>>

\* The participant edits the text: the textarea's onChange.
HandleChange(newContent) ==
  /\ User
  /\ editor.mounted
  /\ newContent # editor.content
  /\ Len(newContent) # Len(editor.content) => LogRoom
  /\ Change(newContent)

\* Editor.tsx:94-124 for an event that changes no Editor state but the timer.
TrackOnly(event) ==
  /\ User
  /\ editor.mounted
  /\ LogRoom
  /\ events' = handleTrackEvent(events, event)
  /\ localStorage' = rerenderDraft(localStorage)
  /\ UNCHANGED <<now, content, wordCount, rules, isSubmitting, isComplete,
                 isCheckedIn, checkInData, toast, autoSaveDue, orphanPauses,
                 panelVars, saveVars>>

\* The textarea's value after a paste of p into c: at the caret at the end of
\* the text, or over the whole text when it is selected.
PasteResults(c, p) == {c \o p, p}

\* Editor.tsx:138-141: the paste event's handler.  The browser then inserts
\* the text and dispatches the input event, unless the value stays the same.
HandlePaste(pastedText) ==
  /\ TrackOnly([type |-> "paste", timestamp |-> now, content |-> pastedText])
  /\ \E value \in PasteResults(editor.content, pastedText) :
       /\ Len(value) # Len(editor.content) => Len(events) + Saves + 1 < MaxEvents + 1
       /\ editor' = [editor EXCEPT
            !.pauseTimeoutRef = trackEventTimer,
            !.pendingInput = IF value # editor.content THEN <<value>> ELSE <<>>]

\* Editor.tsx:126-136: onChange for the text a paste has inserted.
PasteInput ==
  /\ rejected = <<>>
  /\ editor.mounted
  /\ editor.pendingInput # <<>>
  /\ Change(editor.pendingInput[1])

\* Editor.tsx:188-193, 216
OpenConsent ==
  /\ User
  /\ editor.mounted
  /\ ~editor.consentOpen
  /\ editor' = [editor EXCEPT !.consentOpen = TRUE]
  /\ UNCHANGED <<now, appVars, localStorage, autoSaveDue, orphanPauses,
                 panelVars, saveVars>>

\* Editor.tsx:147-151
HandleConsent ==
  /\ editor.consentOpen
  /\ TrackOnly([type |-> "consent", timestamp |-> now])
  /\ editor' = [editor EXCEPT !.consentOpen = FALSE,
                              !.pauseTimeoutRef = trackEventTimer]

\* Editor.tsx:72-75, the wildcard timeout's callback
WildcardTimeout ==
  /\ Idle
  /\ editor.mounted
  /\ editor.wildcardTimeoutRef # <<>>
  /\ now >= editor.wildcardTimeoutRef[1]
  /\ editor' = [editor EXCEPT !.showWildcard = TRUE, !.wildcardShown = TRUE,
                              !.wildcardTimeoutRef = <<>>]
  /\ UNCHANGED <<now, appVars, localStorage, autoSaveDue, orphanPauses,
                 panelVars, saveVars>>

\* Editor.tsx:153-172
HandleAcceptWildcard ==
  /\ User
  /\ editor.mounted
  /\ editor.showWildcard
  /\ LogRoom
  /\ events' = handleTrackEvent(events,
        [type |-> "wildcard_accepted", timestamp |-> now,
         content |-> OpenerText, wildcardId |-> OpenerId])
  /\ editor' = [editor EXCEPT
       !.content = OpenerText,
       !.showWildcard = FALSE,
       !.pauseTimeoutRef = trackEventTimer,
       !.wildcardTimeoutRef = wildcardEffect(OpenerText, editor.wildcardShown)]
  /\ content' = OpenerText
  /\ wordCount' = CountWords(OpenerText)
  /\ localStorage' = saveDraft(localStorage, OpenerText)
  /\ autoSaveDue' = autoSaveEffect(OpenerText)
  /\ PanelEffect(rules, CountWords(OpenerText), CountWords(OpenerText) # wordCount)
  /\ UNCHANGED <<now, rules, isSubmitting, isComplete, isCheckedIn, checkInData,
                 toast, orphanPauses, saveVars>>

\* Editor.tsx:174-177
HandleDeclineWildcard ==
  /\ editor.showWildcard
  /\ TrackOnly([type |-> "wildcard_declined", timestamp |-> now])
  /\ editor' = [editor EXCEPT !.showWildcard = FALSE,
                              !.pauseTimeoutRef = trackEventTimer]

\* Editor.tsx:116-123, the pause timeout's callback (the mounted Editor's)
PauseTimeout ==
  /\ Idle
  /\ editor.pauseTimeoutRef # <<>>
  /\ now >= editor.pauseTimeoutRef[1]
  /\ events' = handleTrackEvent(events, [type |-> "pause", timestamp |-> now])
  /\ editor' = [editor EXCEPT !.pauseTimeoutRef = <<>>]
  /\ localStorage' = rerenderDraft(localStorage)
  /\ UNCHANGED <<now, content, wordCount, rules, isSubmitting, isComplete,
                 isCheckedIn, checkInData, toast, autoSaveDue, orphanPauses,
                 panelVars, saveVars>>

\* The same callback, of a timeout an unmounted Editor left scheduled.
OrphanPauseTimeout ==
  /\ Idle
  /\ orphanPauses # <<>>
  /\ now >= Head(orphanPauses)
  /\ events' = handleTrackEvent(events, [type |-> "pause", timestamp |-> now])
  /\ orphanPauses' = Tail(orphanPauses)
  /\ localStorage' = rerenderDraft(localStorage)
  /\ UNCHANGED <<now, content, wordCount, rules, isSubmitting, isComplete,
                 isCheckedIn, checkInData, toast, autoSaveDue, editor,
                 panelVars, saveVars>>

\* ---------------------------------------------------------- rule interaction
\* App.tsx:148-159, the argument of setRules
handleRuleInteraction(currentRules, ruleId, action, t) ==
  [i \in DOMAIN currentRules |->
     IF currentRules[i].id = ruleId
     THEN IF action = "complete"
          THEN With(With(currentRules[i], "status", "completed"), "completedAt", t)
          ELSE With(With(currentRules[i], "status", "skipped"), "skippedAt", t)
     ELSE currentRules[i]]

\* The event type without the action: every interaction logged as rule_complete.
ruleEventType_alwaysComplete(action) == "rule_complete"

\* App.tsx:162, `rule_${action}`
ruleEventType(action) == IF action = "complete" THEN "rule_complete" ELSE "rule_skip"

ruleToast(action) ==
  IF action = "complete"
  THEN [message |-> "Rule completed! Well done.", type |-> "success"]
  ELSE [message |-> "Rule skipped. Moving on...", type |-> "info"]

\* App.tsx:147-175 with the RulePanel effect the new rules trigger.
RuleInteraction(ruleId, action) ==
  /\ User
  /\ editor.mounted
  /\ LogRoom
  /\ rules' = handleRuleInteraction(rules, ruleId, action, now)
  /\ events' = handleTrackEvent(events,
        [type |-> ruleEventType(action), timestamp |-> now, ruleId |-> ruleId])
  /\ toast' = ruleToast(action)
  /\ PanelEffect(handleRuleInteraction(rules, ruleId, action, now), wordCount, TRUE)
  /\ localStorage' = rerenderDraft(localStorage)
  /\ UNCHANGED <<now, content, wordCount, isSubmitting, isComplete, isCheckedIn,
                 checkInData, autoSaveDue, editor, orphanPauses, saveVars>>

\* The cards the panel renders: the active rules and the cards still playing
\* their exit animation (RulePanel.tsx:84-92).
Rendered(ruleId) == ruleId \in SeqIds(activeRules) \cup exiting

RuleOf(ruleId) == CHOOSE r \in {rules[i] : i \in DOMAIN rules} : r.id = ruleId

\* RulePanel.tsx:58-60, 108-114: the Complete button of a rendered card
HandleComplete(ruleId) ==
  /\ Rendered(ruleId)
  /\ RuleInteraction(ruleId, "complete")

\* RulePanel.tsx:62-64, 115-123: the Skip button, rendered for optional rules
HandleSkip(ruleId) ==
  /\ Rendered(ruleId)
  /\ RuleOf(ruleId).type = "optional"
  /\ RuleInteraction(ruleId, "skip")

\* ------------------------------------------------------------------- submit
\* App.tsx:197-200
incompleteMandatory(rs) ==
  SelectSeq(SelectSeq(rs, LAMBDA r : r.type = "mandatory"),
            LAMBDA r : r.status # "completed" /\ r.status = "active")

\* Submit Story enabled for every content.
HandleSubmitClick_anyLength ==
  /\ User
  /\ View = "editor"
  /\ localStorage' = setItem(localStorage, DraftKey, content)
  /\ isSubmitting' = TRUE
  /\ UnmountEditor
  /\ UNCHANGED <<now, content, wordCount, rules, events, isComplete, isCheckedIn,
                 checkInData, autoSaveDue, saveVars, toast>>

\* App.tsx:195-212; the button is disabled below MinSubmitLen (App.tsx:331).
HandleSubmitClick ==
  /\ User
  /\ View = "editor"
  /\ Len(Trim(content)) >= MinSubmitLen
  /\ IF Len(incompleteMandatory(rules)) > 0
     THEN /\ toast' = [message |-> "Please complete all required prompts before submitting",
                       type |-> "error"]
          /\ UNCHANGED <<isSubmitting, localStorage, editor, orphanPauses, panelVars>>
     ELSE /\ localStorage' = setItem(localStorage, DraftKey, content)
          /\ isSubmitting' = TRUE
          /\ UnmountEditor
          /\ UNCHANGED toast
  /\ UNCHANGED <<now, content, wordCount, rules, events, isComplete, isCheckedIn,
                 checkInData, autoSaveDue, saveVars>>

\* The rule snapshot with completedAt and skippedAt always there, 0 for none.
ruleSnapshot_nullFilled(r) ==
  [id |-> r.id, content |-> r.content, type |-> r.type, status |-> r.status,
   completedAt |-> IF Has(r, "completedAt") THEN r.completedAt ELSE 0,
   skippedAt |-> IF Has(r, "skippedAt") THEN r.skippedAt ELSE 0]

\* App.tsx:226-233
ruleSnapshot(r) ==
  LET base == [id |-> r.id, content |-> r.content, type |-> r.type,
               status |-> r.status]
      withCompleted == IF Has(r, "completedAt") /\ r.completedAt # 0
                       THEN With(base, "completedAt", r.completedAt) ELSE base
  IN IF Has(r, "skippedAt") /\ r.skippedAt # 0
     THEN With(withCompleted, "skippedAt", r.skippedAt) ELSE withCompleted

\* The assembly with the duration measured from 0 and not from startTime.
assemble_durationFromZero(formData, endTime) ==
  LET session ==
        [sessionId |-> sessionId, content |-> content, wordCount |-> wordCount,
         startTime |-> startTime, endTime |-> endTime,
         duration |-> endTime, eventLog |-> events,
         rules |-> [i \in DOMAIN rules |-> ruleSnapshot(rules[i])],
         feedback |-> [answers |-> formData, formCompletionTime |-> now]]
  IN IF checkInData # <<>> THEN With(session, "checkIn", checkInData[1]) ELSE session

\* App.tsx:217-239
assemble(formData, endTime) ==
  LET session ==
        [sessionId |-> sessionId, content |-> content, wordCount |-> wordCount,
         startTime |-> startTime, endTime |-> endTime,
         duration |-> endTime - startTime, eventLog |-> events,
         rules |-> [i \in DOMAIN rules |-> ruleSnapshot(rules[i])],
         feedback |-> [answers |-> formData, formCompletionTime |-> now]]
  IN IF checkInData # <<>> THEN With(session, "checkIn", checkInData[1]) ELSE session

\* App.tsx:215-256 up to the call of saveSession
HandleFormSubmit(formData) ==
  /\ User
  /\ View = "form"
  /\ Saves < MaxSaves
  /\ LogRoom
  /\ inflight' = Append(inflight, assemble(formData, now))
  /\ UNCHANGED <<now, appVars, localStorage, autoSaveDue, editor, orphanPauses,
                 panelVars, rejected, store, downloads, console>>

\* Back to Writing starting from an empty editor: the content state is reset
\* and neither initialContent nor the draft is read.
HandleCancelSubmit_fresh ==
  /\ User
  /\ View = "form"
  /\ isSubmitting' = FALSE
  /\ editor' = [MountEditor(<<>>) EXCEPT !.content = <<>>,
                                         !.wildcardTimeoutRef = wildcardEffect(<<>>, FALSE)]
  /\ content' = <<>>
  /\ wordCount' = 0
  /\ autoSaveDue' = autoSaveEffect(<<>>)
  /\ activeRules' = evaluate(rules, 0, now - startTime)
  /\ evalNow' = now
  /\ exiting' = {}
  /\ UNCHANGED <<now, rules, events, isComplete, isCheckedIn, checkInData, toast,
                 localStorage, orphanPauses, saveVars>>

\* App.tsx:259-270, then the Editor is mounted again.
HandleCancelSubmit ==
  /\ User
  /\ View = "form"
  /\ isSubmitting' = FALSE
  /\ EnterEditor(IF Truthy(localStorage, DraftKey) THEN localStorage[DraftKey]
                 ELSE content)
  /\ UNCHANGED <<now, rules, events, isComplete, isCheckedIn, checkInData, toast,
                 saveVars>>

\* -------------------------------------------------------------- persistence
\* JSON.stringify(v, null, indent): the text of v, with its indentation.
stringify(v, indent) == [json |-> v, indent |-> indent]

RemoveAt(q, i) == SubSeq(q, 1, i - 1) \o SubSeq(q, i + 1, Len(q))

\* firebase.ts:51-58 and App.tsx:243-248: addDoc resolves, saveSession returns
\* the document id, the then-branch runs.
SaveAck(i) ==
  /\ Idle
  /\ i \in DOMAIN inflight
  /\ store' = Append(store, [id |-> Len(store) + 1,
                             data |-> With(inflight[i], "createdAt", now)])
  /\ inflight' = RemoveAt(inflight, i)
  /\ toast' = [message |-> "Your scenario has been successfully submitted!",
               type |-> "success"]
  /\ isComplete' = TRUE
  /\ localStorage' = removeItem(localStorage, DraftKey)
  /\ IF editor.mounted THEN UnmountEditor
     ELSE UNCHANGED <<editor, orphanPauses, panelVars>>
  /\ UNCHANGED <<now, content, wordCount, rules, events, isSubmitting,
                 isCheckedIn, checkInData, autoSaveDue, rejected, downloads,
                 console>>

\* firebase.ts:59-67: addDoc rejects; the catch block logs, writes the session
\* to local storage (the write may throw: the quota) and throws.
SaveReject(i, writeOk) ==
  /\ Idle
  /\ i \in DOMAIN inflight
  /\ console' = Append(console, "Error saving session to Firestore:")
  /\ localStorage' =
       IF writeOk THEN setItem(localStorage, SessionKey, stringify(inflight[i], 0))
       ELSE localStorage
  /\ rejected' = <<inflight[i]>>
  /\ inflight' = RemoveAt(inflight, i)
  /\ UNCHANGED <<now, appVars, autoSaveDue, editor, orphanPauses, panelVars,
                 store, downloads>>

\* saveSessionToLocalStorage removing the draft once the backup is written.
saveSessionToLocalStorage_dropsDraft(ls, session, writeOk) ==
  IF writeOk
  THEN [ls |-> removeItem(setItem(ls, SessionKey, stringify(session, 0)), DraftKey),
        logged |-> <<>>, threw |-> FALSE]
  ELSE [ls |-> ls, logged |-> <<"Error saving session to localStorage:">>,
        threw |-> FALSE]

\* saveSessionToLocalStorage without its try/catch: a failed write throws.
saveSessionToLocalStorage_noCatch(ls, session, writeOk) ==
  IF writeOk
  THEN [ls |-> setItem(ls, SessionKey, stringify(session, 0)), logged |-> <<>>,
        threw |-> FALSE]
  ELSE [ls |-> ls, logged |-> <<>>, threw |-> TRUE]

\* firebase.ts:71-78: the storage and the console after the call, and whether
\* the call threw.
saveSessionToLocalStorage(ls, session, writeOk) ==
  IF writeOk
  THEN [ls |-> setItem(ls, SessionKey, stringify(session, 0)), logged |-> <<>>,
        threw |-> FALSE]
  ELSE [ls |-> ls, logged |-> <<"Error saving session to localStorage:">>,
        threw |-> FALSE]

\* firebase.ts:81-93
downloadSessionAsJson(session) ==
  [download |-> <<"scenario_session_", session.sessionId, ".json">>,
   href |-> stringify(session, 2)]

\* The catch-branch calling saveSession again after the fallback chain.
HandleCatch_retry(writeOk) ==
  /\ rejected # <<>>
  /\ LET saved == saveSessionToLocalStorage(localStorage, rejected[1], writeOk)
     IN /\ localStorage' = rerenderDraft(saved.ls)
        /\ console' = console \o saved.logged
        /\ downloads' = Append(downloads, downloadSessionAsJson(rejected[1]))
  /\ toast' = [message |-> "Error saving to cloud. Backed up locally.",
               type |-> "error"]
  /\ inflight' = Append(inflight, rejected[1])
  /\ rejected' = <<>>
  /\ UNCHANGED <<now, content, wordCount, rules, events, isSubmitting, isComplete,
                 isCheckedIn, checkInData, autoSaveDue, editor, orphanPauses,
                 panelVars, store>>

\* App.tsx:249-255, the catch-branch
HandleCatch(writeOk) ==
  /\ rejected # <<>>
  /\ LET saved == saveSessionToLocalStorage(localStorage, rejected[1], writeOk)
     IN /\ localStorage' = rerenderDraft(saved.ls)
        /\ console' = console \o saved.logged
        /\ downloads' = IF saved.threw THEN downloads
                        ELSE Append(downloads, downloadSessionAsJson(rejected[1]))
  /\ toast' = [message |-> "Error saving to cloud. Backed up locally.",
               type |-> "error"]
  /\ rejected' = <<>>
  /\ UNCHANGED <<now, content, wordCount, rules, events, isSubmitting, isComplete,
                 isCheckedIn, checkInData, autoSaveDue, editor, orphanPauses,
                 panelVars, inflight, store>>

\* App.tsx:118-124, the interval's callback
AutoSave ==
  /\ Idle
  /\ now >= autoSaveDue
  /\ localStorage' =
       IF Trim(content) # <<>> THEN setItem(localStorage, DraftKey, content)
       ELSE localStorage
  /\ autoSaveDue' = autoSaveDue + AutoSaveMs
  /\ UNCHANGED <<now, appVars, editor, orphanPauses, panelVars, saveVars>>

\* --------------------------------------------------------------------- time
SeqSet(q) == {q[i] : i \in DOMAIN q}

\* When the scheduled timers are due.
DueTimes ==
  SeqSet(editor.pauseTimeoutRef) \cup SeqSet(editor.wildcardTimeoutRef)
    \cup SeqSet(orphanPauses) \cup {autoSaveDue}

\* RulePanel.tsx:91, the exit animation of a card (0.3 s)
ExitMs == 300

\* Time passes between two tasks, by d ms; a timer that is due fires first.
Tick(d) ==
  /\ Idle
  /\ d > 0
  /\ \A t \in DueTimes : now + d <= t
  /\ (now + d) \notin DueTimes => now + d <= StartNow + MaxFineMs
  /\ now + d <= StartNow + MaxMs
  /\ now' = now + d
  /\ exiting' = IF d >= ExitMs THEN {} ELSE exiting
  /\ UNCHANGED <<appVars, localStorage, autoSaveDue, editor, orphanPauses,
                 activeRules, evalNow, saveVars>>

FormData == {"answers"}
CheckInData == {"checkin"}

Next ==
  \/ \E data \in CheckInData : HandleCheckInSubmit(data)
  \/ \E newContent \in Texts : HandleChange(newContent)
  \/ \E pastedText \in PasteTexts : HandlePaste(pastedText)
  \/ PasteInput
  \/ OpenConsent
  \/ HandleConsent
  \/ WildcardTimeout
  \/ HandleAcceptWildcard
  \/ HandleDeclineWildcard
  \/ PauseTimeout
  \/ OrphanPauseTimeout
  \/ \E ruleId \in RuleIds : HandleComplete(ruleId)
  \/ \E ruleId \in RuleIds : HandleSkip(ruleId)
  \/ HandleSubmitClick
  \/ \E formData \in FormData : HandleFormSubmit(formData)
  \/ HandleCancelSubmit
  \/ \E i \in 1..MaxSaves : SaveAck(i)
  \/ \E i \in 1..MaxSaves, writeOk \in BOOLEAN : SaveReject(i, writeOk)
  \/ \E writeOk \in BOOLEAN : HandleCatch(writeOk)
  \/ AutoSave
  \/ \E d \in {TickMs} \cup {t - now : t \in DueTimes} : Tick(d)

Spec == Init /\ [][Next]_vars

\* The browser runs what it has scheduled: time passes, due timers fire, the
\* promise of a save settles and its reactions run.  Nothing obliges the
\* participant to act.
Fairness ==
  /\ WF_vars(\E d \in {TickMs} \cup {t - now : t \in DueTimes} : Tick(d))
  /\ WF_vars(PauseTimeout)
  /\ WF_vars(OrphanPauseTimeout)
  /\ WF_vars(WildcardTimeout)
  /\ WF_vars(AutoSave)
  /\ WF_vars(\E i \in 1..MaxSaves : SaveAck(i) \/ \E writeOk \in BOOLEAN : SaveReject(i, writeOk))
  /\ WF_vars(\E writeOk \in BOOLEAN : HandleCatch(writeOk))

SpecLive == Init /\ [][Next]_vars /\ Fairness

\* The rule-interaction operation called as an operation of its own, with any
\* rule and any action, and not only through the buttons the panel renders.
InvokeRuleInteraction(ruleId, action) == RuleInteraction(ruleId, action)

NextContract ==
  \/ Next
  \/ \E ruleId \in RuleIds, action \in {"complete", "skip"} :
        InvokeRuleInteraction(ruleId, action)

SpecContract == Init /\ [][NextContract]_vars

\* ==================================================================== claims
RuleAt(ruleId) == CHOOSE i \in DOMAIN rules : rules[i].id = ruleId

\* C1: once a rule is completed or skipped, no step makes it inactive or active
\* again, and it is not in the active set the rule panel holds after the step.
C1_TerminalIsTerminal ==
  [][\A i \in DOMAIN rules :
       IsTerminal(rules[i]) =>
         /\ IsTerminal(rules'[i])
         /\ rules'[i].id \notin SeqIds(activeRules')]_vars

\* A completed rule whose condition is met, and the panel has evaluated the
\* rules again after the completion.
C1_Witness ==
  /\ editor.mounted
  /\ \E i \in DOMAIN rules :
       /\ rules[i].status = "completed"
       /\ shouldActivate(rules[i], wordCount, evalNow - startTime)
       /\ evalNow > rules[i].completedAt

\* C2: while the panel is mounted, a wordCount rule that is neither completed
\* nor skipped is in the active set iff wordCount >= its threshold, whatever
\* the elapsed time.
C2_WordCountActivation ==
  editor.mounted =>
    \A i \in DOMAIN rules :
      (rules[i].condition.type = "wordCount" /\ ~IsTerminal(rules[i])) =>
        (rules[i].id \in SeqIds(activeRules) <=> wordCount >= rules[i].condition.value)

\* One wordCount rule exactly at its threshold and active, another below its
\* threshold and not active, evaluated after the time rule's threshold.
C2_Witness ==
  /\ editor.mounted
  /\ wordCount = rules[RuleAt("rule1")].condition.value
  /\ "rule1" \in SeqIds(activeRules)
  /\ ~IsTerminal(rules[RuleAt("structure1")])
  /\ "structure1" \notin SeqIds(activeRules)
  /\ evalNow - startTime >= 2000

\* C3: while the panel is mounted, a time rule that is neither completed nor
\* skipped is in the active set iff, at the evaluation, the time since the
\* session start was >= its threshold in seconds, whatever the word count.
C3_TimeActivation ==
  editor.mounted =>
    \A i \in DOMAIN rules :
      (rules[i].condition.type = "time" /\ ~IsTerminal(rules[i])) =>
        (rules[i].id \in SeqIds(activeRules)
           <=> evalNow - startTime >= rules[i].condition.value * 1000)

\* The time rule is active while no word is written.
C3_Witness ==
  /\ editor.mounted
  /\ "structure3" \in SeqIds(activeRules)
  /\ wordCount = 0
  /\ SeqIds(activeRules) = {"structure3"}

\* C4: while a mandatory rule is active (shown in the panel, threshold met,
\* neither completed nor skipped), no step moves to the questionnaire.
C4_SubmitGate ==
  [][(/\ ~isSubmitting
      /\ \E i \in DOMAIN activeRules :
           /\ activeRules[i].type = "mandatory"
           /\ shouldActivate(activeRules[i], wordCount, now - startTime))
       => ~isSubmitting']_vars

\* C5: a skip of a mandatory rule is rejected: a mandatory rule is never
\* skipped, never carries skippedAt, and the log holds no rule_skip for it.
C5_SkipMandatoryRejected ==
  \A i \in DOMAIN rules :
    rules[i].type = "mandatory" =>
      /\ rules[i].status # "skipped"
      /\ ~Has(rules[i], "skippedAt")
      /\ \A k \in DOMAIN events :
           events[k].type = "rule_skip" => events[k].ruleId # rules[i].id

\* C6: every step leaves the event log unchanged or appends one event to it.
C6_LogAppendOnly ==
  [][\/ events' = events
     \/ /\ Len(events') = Len(events) + 1
        /\ SubSeq(events', 1, Len(events)) = events]_vars

\* A pause event between two events of the participant.
C6_Witness ==
  \E i \in DOMAIN events :
    /\ i > 1
    /\ i < Len(events)
    /\ events[i].type = "pause"
    /\ events[i - 1].type \in {"type", "delete", "paste"}
    /\ events[i + 1].type \in {"type", "delete", "paste"}

\* The events the Editor's trackEvent records.
Tracked(e) ==
  e.type \in {"type", "delete", "paste", "consent", "wildcard_accepted",
              "wildcard_declined"}

\* C7: every pause event follows an editor-tracked event by at least 2000 ms,
\* with no other editor-tracked event and no other pause in between.
C7_PauseDebounce ==
  \A i \in DOMAIN events :
    events[i].type = "pause" =>
      \E j \in 1..(i - 1) :
        /\ Tracked(events[j])
        /\ \A k \in (j + 1)..(i - 1) :
             ~Tracked(events[k]) /\ events[k].type # "pause"
        /\ events[i].timestamp - events[j].timestamp >= PauseMs

\* C8: the event immediately before every pause event is a type, delete or
\* paste event.
C8_PauseFollowsEditing ==
  \A i \in DOMAIN events :
    events[i].type = "pause" =>
      /\ i > 1
      /\ events[i - 1].type \in {"type", "delete", "paste"}

C10_DraftDeletedAfterAck ==
  isComplete => DraftKey \notin DOMAIN localStorage

\* C11: the store never holds two session documents of one sessionId.
C11_WrittenOnce ==
  \A i, j \in DOMAIN store :
    store[i].data.sessionId = store[j].data.sessionId => i = j

\* C12: a cloud save is started only by a submission of the questionnaire,
\* one per submission; the steps of a failure (the rejection and the
\* catch-branch) start none.
C12_OneAttemptPerSubmission ==
  [][/\ Saves' # Saves =>
          /\ Saves' = Saves + 1
          /\ Len(inflight') = Len(inflight) + 1
          /\ \E formData \in FormData : HandleFormSubmit(formData)
     /\ rejected' # rejected => Len(inflight') <= Len(inflight)
     /\ Len(inflight') > Len(inflight) => Saves' = Saves + 1]_vars

\* The only attempt has failed, its catch-branch has run, and the auto-save
\* interval has fired since: nothing is in flight.
C12_Witness ==
  /\ Len(downloads) = 1
  /\ Saves = 1
  /\ inflight = <<>>
  /\ rejected = <<>>
  /\ now >= downloads[1].href.json.endTime + AutoSaveMs

\* The draft entry of local storage.
Draft(ls) == IF DraftKey \in DOMAIN ls THEN <<ls[DraftKey]>> ELSE <<>>

\* C13: the rejection of a cloud save and its catch-branch leave content,
\* wordCount, events, rules and the draft entry as they were and do not set
\* isComplete.
C13_FailureDestroysNothing ==
  [][rejected' # rejected =>
       /\ content' = content
       /\ wordCount' = wordCount
       /\ events' = events
       /\ rules' = rules
       /\ Draft(localStorage') = Draft(localStorage)
       /\ isComplete' = isComplete]_vars

\* A save failed while the participant was back in the editor with a draft;
\* the fallback chain has run and the draft is still the editor's text.
C13_Witness ==
  /\ Len(downloads) > 0
  /\ rejected = <<>>
  /\ ~isComplete
  /\ editor.mounted
  /\ Len(events) > 1
  /\ SessionKey \in DOMAIN localStorage
  /\ Draft(localStorage) = <<content>>

\* The step hands a new session to saveSession.
Assembles == Len(inflight') = Len(inflight) + 1

\* C14: the session a submission assembles has duration = endTime - startTime,
\* with startTime the session's start and endTime the time of the submission,
\* and its eventLog is the event sequence of that moment.
C14_DurationAndEventLog ==
  [][Assembles =>
       LET session == inflight'[Len(inflight')]
       IN /\ session.startTime = startTime
          /\ session.endTime = now
          /\ session.duration = session.endTime - session.startTime
          /\ session.eventLog = events]_vars

\* A stored session of positive duration whose log ends with a pause event
\* later than its first event.
C14_Witness ==
  \E i \in DOMAIN store :
    LET session == store[i].data
    IN /\ session.duration > 0
       /\ session.duration = session.endTime - startTime
       /\ Len(session.eventLog) >= 3
       /\ session.eventLog[Len(session.eventLog)].type = "pause"
       /\ session.eventLog[Len(session.eventLog)].timestamp > session.eventLog[1].timestamp

\* The fields a rule snapshot must have.
SnapshotFields(rule) ==
  {"id", "content", "type", "status"}
    \cup (IF Has(rule, "completedAt") THEN {"completedAt"} ELSE {})
    \cup (IF Has(rule, "skippedAt") THEN {"skippedAt"} ELSE {})

\* C15: the rules of an assembled session are the application's rules in
\* order, each with exactly id, content, type, status and the completedAt /
\* skippedAt it has; the assembly changes neither rules nor events.
C15_RuleSnapshot ==
  [][Assembles =>
       LET snapshot == inflight'[Len(inflight')].rules
       IN /\ DOMAIN snapshot = DOMAIN rules
          /\ \A i \in DOMAIN rules :
               /\ DOMAIN snapshot[i] = SnapshotFields(rules[i])
               /\ \A f \in SnapshotFields(rules[i]) : snapshot[i][f] = rules[i][f]
          /\ rules' = rules
          /\ events' = events]_vars

\* A stored session with a completed or skipped rule next to an untouched one.
C15_Witness ==
  \E i \in DOMAIN store :
    \E a, b \in DOMAIN store[i].data.rules :
      LET snapshot == store[i].data.rules
      IN /\ a < b
         /\ (Has(snapshot[a], "completedAt") \/ Has(snapshot[a], "skippedAt"))
         /\ ~Has(snapshot[b], "completedAt")
         /\ ~Has(snapshot[b], "skippedAt")
         /\ snapshot[b].status = "inactive"

\* C16: after a change of the editor's content, draft_{sessionId} holds the
\* new content, also when it is empty or blank.
C16_DraftOnEveryChange ==
  [][(editor.mounted /\ editor'.mounted /\ editor'.content # editor.content)
       => Draft(localStorage') = <<editor'.content>>]_vars

\* C18: evaluating the evaluated rules again with the same word count and
\* elapsed time gives the same active set, which is the set displayed; and a
\* wordCount rule that is displayed and not completed or skipped is no longer
\* displayed after a step that takes the word count below its threshold.
C18_NotALatch ==
  [][/\ editor.mounted =>
          /\ activeRules = evaluate(rules, wordCount, evalNow - startTime)
          /\ evaluate(updatedRules(rules, wordCount, evalNow - startTime),
                      wordCount, evalNow - startTime) = activeRules
     /\ \A i \in DOMAIN rules :
          (/\ editor.mounted /\ editor'.mounted
           /\ rules[i].condition.type = "wordCount"
           /\ rules[i].id \in SeqIds(activeRules)
           /\ ~IsTerminal(rules'[i])
           /\ wordCount' < rules[i].condition.value)
            => rules[i].id \notin SeqIds(activeRules')]_vars

\* The card of a wordCount rule is leaving the panel: the rule was active, the
\* text was deleted, and the rule is neither completed nor skipped.
C18_Witness ==
  /\ editor.mounted
  /\ "rule1" \in exiting
  /\ "rule1" \notin SeqIds(activeRules)
  /\ ~IsTerminal(rules[RuleAt("rule1")])
  /\ wordCount < rules[RuleAt("rule1")].condition.value
  /\ \E k \in DOMAIN events : events[k].type = "delete"

\* C20: a pause event is appended only by the pause timeout of the mounted
\* Editor; after the Editor is unmounted none is appended.
C20_PauseClearedOnTeardown ==
  [][(Len(events') = Len(events) + 1 /\ events'[Len(events')].type = "pause")
       => /\ editor.mounted
          /\ editor.pauseTimeoutRef # <<>>
          /\ editor.pauseTimeoutRef[1] <= now]_vars

\* C17: whenever the panel is mounted and the elapsed time has reached the
\* threshold of a time rule that is neither completed nor skipped, the rule is
\* eventually in the active set (or completed, skipped, or the panel unmounted).
C17_TimeReevaluation ==
  \A i \in DOMAIN INITIAL_RULES :
    INITIAL_RULES[i].condition.type = "time" =>
      [](( /\ editor.mounted
           /\ ~IsTerminal(rules[i])
           /\ now - startTime >= rules[i].condition.value * 1000)
         => <>( \/ rules[i].id \in SeqIds(activeRules)
                \/ IsTerminal(rules[i])
                \/ ~editor.mounted ))

\* C19: the content of every type, delete and paste event is the editor's
\* whole text after that edit (for a paste: after the pasted text is inserted).
C19_ContentIsSnapshot ==
  [][(/\ Len(events') = Len(events) + 1
      /\ events'[Len(events')].type \in {"type", "delete", "paste"})
       => events'[Len(events')].content =
            IF editor'.pendingInput # <<>> THEN editor'.pendingInput[1]
            ELSE editor'.content]_vars

\* The number of maximal runs of non-whitespace characters of s.
Runs(s) ==
  Cardinality({i \in DOMAIN s : ~IsSpace(s[i]) /\ (i = 1 \/ IsSpace(s[i - 1]))})

\* C21: wordCount is the number of maximal runs of non-whitespace characters
\* of content (0 for empty and blank content), in the application and in the
\* mounted Editor.
C21_WordCount ==
  /\ wordCount = Runs(content)
  /\ editor.mounted => wordCount = Runs(editor.content)

\* The content starts with whitespace and has one word.
C21_Witness ==
  /\ editor.mounted
  /\ content # <<>>
  /\ IsSpace(content[1])
  /\ Trim(content) # <<>>
  /\ wordCount = 1

\* C22: Submit Story and Back to Writing change neither content, wordCount,
\* rules nor the events logged, nothing changes content, wordCount or rules
\* in between and no logged event is lost, and Back to Writing shows the
\* editor with that content.
C22_SubmitBackRoundTrip ==
  [][/\ (isSubmitting' # isSubmitting /\ ~isComplete') =>
          /\ content' = content
          /\ wordCount' = wordCount
          /\ rules' = rules
          /\ events' = events
     /\ (isSubmitting /\ ~isSubmitting') =>
          /\ editor'.mounted
          /\ editor'.content = content
          /\ View' = "editor"
     /\ (isSubmitting /\ isSubmitting') =>
          /\ content' = content
          /\ wordCount' = wordCount
          /\ rules' = rules
          /\ Len(events') >= Len(events)
          /\ SubSeq(events', 1, Len(events)) = events]_vars

\* Back in the editor after a visit of the questionnaire (the pause timeout
\* of the Editor unmounted by Submit Story is still scheduled), with the
\* submitted text and a completed rule.
C22_Witness ==
  /\ View = "editor"
  /\ editor.mounted
  /\ orphanPauses # <<>>
  /\ Len(Trim(content)) >= MinSubmitLen
  /\ editor.content = content
  /\ wordCount = CountWords(content)
  /\ \E i \in DOMAIN rules : rules[i].status = "completed"

\* C23: in an assembled session, a wordCount rule that is neither completed
\* nor skipped has status active iff the session's word count has reached its
\* threshold, that is iff the panel displayed it when Submit Story was clicked.
C23_SnapshotReflectsDisplay ==
  [][Assembles =>
       LET session == inflight'[Len(inflight')]
       IN \A i \in DOMAIN rules :
            (/\ rules[i].condition.type = "wordCount"
             /\ session.rules[i].status \notin {"completed", "skipped"})
              => (session.rules[i].status = "active"
                    <=> session.wordCount >= rules[i].condition.value)]_vars

\* The positions of the rule_complete / rule_skip events of a rule in the log.
RuleEvents(ruleId) ==
  {k \in DOMAIN events :
     /\ events[k].type \in {"rule_complete", "rule_skip"}
     /\ events[k].ruleId = ruleId}

\* The type of the last of them, "none" when there is none.
LastRuleEvent(ruleId) ==
  IF RuleEvents(ruleId) = {} THEN "none"
  ELSE events[CHOOSE k \in RuleEvents(ruleId) :
                \A j \in RuleEvents(ruleId) : j <= k].type

\* C24: a rule is completed iff the last rule_complete / rule_skip event of
\* its id is rule_complete, skipped iff it is rule_skip, and neither when the
\* log has no such event.
C24_RulesAgreeWithLog ==
  \A i \in DOMAIN rules :
    /\ rules[i].status = "completed" <=> LastRuleEvent(rules[i].id) = "rule_complete"
    /\ rules[i].status = "skipped" <=> LastRuleEvent(rules[i].id) = "rule_skip"
    /\ LastRuleEvent(rules[i].id) = "none" => ~IsTerminal(rules[i])

\* A rule skipped and then completed (the second click on its card while it
\* leaves the panel), next to a rule with no interaction.
C24_Witness ==
  /\ \E i \in DOMAIN rules :
       /\ rules[i].status = "completed"
       /\ \E k \in RuleEvents(rules[i].id) : events[k].type = "rule_skip"
  /\ \E i \in DOMAIN rules : RuleEvents(rules[i].id) = {}

\* C25: when the acknowledgement of a save shows the completion screen, the
\* content of the document just stored is the application's content.
C25_AckContentIsCurrent ==
  [][(~isComplete /\ isComplete') =>
       store'[Len(store')].data.content = content']_vars

\* C26: every session handed to the cloud save has a content of at least 50
\* characters after trimming, which is the application's content, and carries
\* the check-in data; the questionnaire is entered only from the editor view
\* after check-in with such a content.
C26_SubmittedContentLongEnough ==
  [][/\ Assembles =>
          LET session == inflight'[Len(inflight')]
          IN /\ Len(Trim(session.content)) >= MinSubmitLen
             /\ session.content = content
             /\ isCheckedIn
             /\ Has(session, "checkIn")
             /\ View = "form"
     /\ (~isSubmitting /\ isSubmitting') =>
          /\ View = "editor"
          /\ isCheckedIn
          /\ Len(Trim(content)) >= MinSubmitLen]_vars

\* A stored session whose text has exactly the least length, with the check-in
\* data and the check-in as the first event of its log.
C26_Witness ==
  \E i \in DOMAIN store :
    /\ Len(Trim(store[i].data.content)) = MinSubmitLen
    /\ Has(store[i].data, "checkIn")
    /\ store[i].data.eventLog[1].type = "check_in_complete"

\* C30: no rule carries both completedAt and skippedAt, and no step takes a
\* rule from completed to skipped or from skipped to completed.
C30_TerminalSetOnce ==
  [][\A i \in DOMAIN rules :
       /\ ~(Has(rules'[i], "completedAt") /\ Has(rules'[i], "skippedAt"))
       /\ rules[i].status = "completed" => rules'[i].status = "completed"
       /\ rules[i].status = "skipped" => rules'[i].status = "skipped"]_vars

TextEvents ==
  {k \in DOMAIN events : events[k].type \in {"type", "delete", "wildcard_accepted"}}

\* C29: while the Editor is mounted and no paste is being inserted, the
\* content of the last type, delete or wildcard_accepted event is the
\* editor's content.
C29_EveryChangeRecorded ==
  (editor.mounted /\ editor.pendingInput = <<>> /\ TextEvents # {}) =>
    events[CHOOSE k \in TextEvents : \A j \in TextEvents : j <= k].content
      = editor.content

====
